---- MODULE Spec2Model ----
(***************************************************************************)
(* Model of the Waves automatic lessor (src/lessor.go): one invocation of  *)
(* run(), which moves the spendable balance of the generating account to   *)
(* the lessor account and leases it back, against a node that holds the    *)
(* balances, the extra fees, the pool of broadcast transactions and the    *)
(* blockchain.                                                             *)
(*                                                                         *)
(* One action is one network call of run() together with the local code    *)
(* that follows it up to the next network call: the cancellation of the    *)
(* context is only observed by the network calls.                          *)
(*                                                                         *)
(* Machine words.  balance, fee and amount are uint64 in the source and    *)
(* irreducibleBalance, leasingThreshold are int64.  TLC's integers are 32  *)
(* bits wide, so the model keeps the wrap-around arithmetic but on words   *)
(* of 30 bits: UintMod stands for 2^64 and IntHalf for 2^63.  All program  *)
(* constants (standardFee, waves) keep their values.                       *)
(***************************************************************************)
EXTENDS Integers, FiniteSets, Sequences, TLC

\* ------------------------------------------------------------------------
\* Program constants
\* ------------------------------------------------------------------------
waves == 100000000

standardFee == 100000

\* ------------------------------------------------------------------------
\* Machine arithmetic
\* ------------------------------------------------------------------------
UintMod == 2^30

IntHalf == 2^29

\* int64(u) for a uint64 u: the same bits read as a signed word
ToInt64(u) == IF u >= IntHalf THEN u - UintMod ELSE u

\* uint64(i) for an int64 i
ToUint64(i) == i % UintMod

\* a - b on int64, wrapping
SubInt64(a, b) == ToInt64((a - b) % UintMod)

\* a + b on uint64, wrapping
AddUint64(a, b) == (a + b) % UintMod

\* a - b on uint64, wrapping
SubUint64(a, b) == (a - b) % UintMod

\* ------------------------------------------------------------------------
\* Bounds of the model
\* ------------------------------------------------------------------------
\* lookups of one track() loop the model counts; further lookups are made but
\* no longer counted
MaxPolls == 3

\* ------------------------------------------------------------------------
\* The node: addresses, balances, extra fees
\* ------------------------------------------------------------------------
Addrs == {"generator", "lessor", "recipient", "override", "leasing"}

\* the extra fee of a scripted account, and none
ExtraFees == {0, 400000}

GeneratorBalances == {100000, 100001, 500000, 100000000, 100100000, 100100001, 150000000, 500000000}

LessorBalances == {0, 100001, 500000, 50099999, 50100000, 150099999, 150100000}

IrreducibleBalances == {0, waves}

LeasingThresholds == {0, 50000000}

\* the node keeps balances in signed words: every balance, and their sum,
\* is below 2^63 (IntHalf in the model)
MaxSupply == IntHalf - 1

NoTx == [kind |-> "none"]

\* the network schemes: the byte of main net and of test net addresses
Schemes == {"W", "T"}

\* the features a node reports: the Protobuf feature and another one
ProtobufFeature == 15

FeatureIds == {14, ProtobufFeature}

BlockchainStatuses == {"UNDEFINED", "APPROVED", "ACTIVATED"}

NodeStatuses == {"NOT_IMPLEMENTED", "IMPLEMENTED", "VOTED"}

Features ==
    [id : FeatureIds, blockchainStatus : BlockchainStatuses,
     nodeStatus : NodeStatuses]

\* longest list of features of the activation status
MaxFeatures == 2

FeatureLists == UNION {[1..n -> Features] : n \in 0..MaxFeatures}

\* the two lists the runs of all policies are checked with
ActivatedList ==
    <<[id |-> ProtobufFeature, blockchainStatus |-> "ACTIVATED",
       nodeStatus |-> "IMPLEMENTED"]>>

PlainFeatureLists == {<<>>, ActivatedList}

Kinds == {"transfer", "lease"}

VARIABLES
    cfg,        \* the flags of the run (lines 114-142), read-only
    chain,      \* node: the network scheme and the list of features, read-only
    pc,         \* the position of run()
    result,     \* what run() returned: "none" while running
    cancelled,  \* ctx is cancelled (signal.NotifyContext, line 236)
    txVer,      \* transaction version, 0 before it is decided
    scheme,     \* local variable scheme, "none" before getScheme returns
    balance,    \* local variable balance
    fee,        \* local variable fee
    amount,     \* local variable amount
    phase,      \* "transfer" (steps 4-5 of run) or "lease" (steps 6-7)
    txs,        \* per kind: the transaction built, or NoTx
    observed,   \* per kind: what the node reported to this phase (-1: not yet)
    rendered,   \* kinds of transactions printed as JSON (dry-run)
    calls,      \* how many times each collaborator was called
    polls,      \* lookups made by the current track() loop (up to MaxPolls)
    lastLookup, \* what the latest lookup of track() answered, "none" before
    exitCode,   \* exit status of the process, -1 while it runs
    listener,   \* the goroutine of interruptListener (sigterm.go) and its channel
    chainBal,   \* node: available balance of each address
    chainBal0,  \* node: the balances when the run started
    extraFee,   \* node: extra fee of each address
    pending,    \* node: kinds of transactions accepted but not yet in a block
    mined       \* node: kinds of transactions in the blockchain

vars == <<cfg, chain, pc, result, cancelled, txVer, scheme, balance, fee, amount,
          phase, txs, observed, rendered, calls, polls, lastLookup, exitCode,
          listener, chainBal, chainBal0, extraFee, pending, mined>>

CallNames == {"height", "lastBlock", "activation",
              "balanceGenerator", "balanceLessor",
              "extraFeeGenerator", "extraFeeLessor",
              "signTransfer", "signLease",
              "broadcastTransfer", "broadcastLease",
              "infoTransfer", "infoLease"}

\* ------------------------------------------------------------------------
\* The amount policy of run(), the same code in both phases
\* ------------------------------------------------------------------------
\* lines 324-331 and 408-415: reserve the irreducible balance, never below 0
ReserveBalance(raw, irreducible) ==
    IF irreducible > 0
    THEN LET b == SubInt64(ToInt64(raw), irreducible)
         IN  IF b > 0 THEN ToUint64(b) ELSE 0
    ELSE raw

\* mutant: a balance equal to the standard fee passes the check
NotEnoughBalance_Strict(b) == b < standardFee

\* lines 332 and 416: the balance does not even cover the standard fee
NotEnoughBalance(b) == b <= standardFee

\* mutant: a test run takes one WAVES off the balance
CapTestRun_TakeOff(b, testRun) == IF b > waves /\ testRun THEN b - waves ELSE b

\* lines 336-338 and 420-422: a test run spends at most one WAVES
CapTestRun(b, testRun) == IF b > waves /\ testRun THEN waves ELSE b

\* lines 355 and 439
TxFee(extra) == AddUint64(standardFee, extra)

\* mutant: only the standard fee is taken off the balance
TxAmount_StandardFeeOnly(b, f) == SubUint64(b, standardFee)

\* lines 356 and 440
TxAmount(b, f) == SubUint64(b, f)

\* lines 357 and 441: amount is a uint64
NonPositiveAmount(a) == a <= 0

\* mutant: an amount equal to the threshold is skipped too
BelowThreshold_Inclusive(a, threshold) == threshold > 0 /\ a <= ToUint64(threshold)

\* lines 445-450
BelowThreshold(a, threshold) == threshold > 0 /\ a < ToUint64(threshold)

\* mutant: the status of the node is not looked at
ActivatedFeature_AnyNodeStatus(f) ==
    f.id = ProtobufFeature /\ f.blockchainStatus = "ACTIVATED"

\* line 594: the test of one feature
ActivatedFeature(f) ==
    /\ f.id = ProtobufFeature
    /\ f.blockchainStatus = "ACTIVATED"
    /\ (f.nodeStatus = "IMPLEMENTED" \/ f.nodeStatus = "VOTED")

\* lines 593-598: the loop over resp.Features, from the i-th on
RECURSIVE FindActivated(_, _)
FindActivated(fs, i) ==
    IF i > Len(fs) THEN FALSE
    ELSE IF ActivatedFeature(fs[i]) THEN TRUE
    ELSE FindActivated(fs, i + 1)

\* isProtobufActivated (lines 584-600) on the list the node answered
IsProtobufActivated(fs) == FindActivated(fs, 1)

\* mutant: the version of the transactions before Protobuf, always
TxVersion_Legacy(protobuf) == 2

\* lines 268-271
TxVersion(protobuf) == IF protobuf THEN 3 ELSE 2

\* mutant: an error that is not the cancellation is dropped
ClassifyError_Swallow(err) == IF err = "canceled" THEN "terminated" ELSE "ok"

\* lines 242-246 and every other error branch of run(): the error returned
ClassifyError(err) == IF err = "canceled" THEN "terminated" ELSE "failure"

\* mutant: the dry-run flag is not looked at
SubmitMode_AlwaysBroadcast(dryRun) == "broadcast"

\* line 367 and 457: what is done with a signed transaction
SubmitMode(dryRun) == IF dryRun THEN "render" ELSE "broadcast"

\* mutant: no early exit
EarlyExit_Never(transferOnly) == FALSE

\* line 393: the early exit of the transfer only mode
EarlyExit(transferOnly) == transferOnly

\* mutant: the transfer always goes to the recipient address of the flags
TransferRecipient_Configured(transferOnly) == "recipient"

\* lines 286-303: the recipient of the transfer
TransferRecipient(transferOnly) == IF transferOnly THEN "recipient" ELSE "lessor"

\* ------------------------------------------------------------------------
\* The node
\* ------------------------------------------------------------------------
\* mutant: the calls are made without the context
NetOutcomes_IgnoreCancel == {"ok", "error"}

\* what a call made with ctx can return: a cancelled context fails the call
NetOutcomes == IF cancelled THEN {"canceled"} ELSE {"ok", "error"}

\* the node relays a transaction only if its sender can pay for it
NodeAccepts(tx) == tx.amount > 0 /\ tx.amount + tx.fee <= chainBal[tx.sender]

\* mutant: the broadcast is sent without the context
BroadcastOutcomes_IgnoreCancel(tx) ==
    {"error"} \cup (IF NodeAccepts(tx) THEN {"ok"} ELSE {})

\* lines 487-490: what the broadcast made with ctx returns
BroadcastOutcomes(tx) ==
    IF cancelled THEN {"canceled"}
    ELSE {"error"} \cup (IF NodeAccepts(tx) THEN {"ok"} ELSE {})

\* mutant: track() takes any answer of the node for the transaction
LookupOutcomes_AlwaysFound(k) ==
    IF cancelled THEN {"canceled"} ELSE {"error", "found"}

\* mutant: the lookup does not see the cancellation
LookupOutcomes_NoCancel(k) ==
    {"error"} \cup (IF k \in mined THEN {"found"} ELSE {"notfound"})

\* lines 495-501: what one lookup of track() yields for a transaction kind
LookupOutcomes(k) ==
    IF cancelled THEN {"canceled"}
    ELSE {"error"} \cup (IF k \in mined THEN {"found"} ELSE {"notfound"})

\* the balances after the transaction is put in a block
Applied(bal, tx) ==
    IF tx.kind = "transfer"
    THEN [a \in Addrs |->
            IF a = tx.sender THEN bal[a] - tx.amount - tx.fee
            ELSE IF a = tx.recipient THEN bal[a] + tx.amount
            ELSE bal[a]]
    ELSE [a \in Addrs |->
            IF a = tx.sender THEN bal[a] - tx.amount - tx.fee ELSE bal[a]]

\* the transfer and the lease of run()
transfer == txs["transfer"]

lease == txs["lease"]

\* accountFromSK (lines 67-78) for the generating secret key (line 275)
GeneratorAccount == [sk |-> "generatorSK", pk |-> "generatorPK", addr |-> "generator"]

\* accountFromAddress (lines 92-94): neither key
AccountFromAddress(a) == [sk |-> "none", pk |-> "none", addr |-> a]

\* mutant: the override of the public key is not looked at
LessorAccount_IgnoreOverride(c) ==
    [sk |-> "lessorSK", pk |-> "lessorPK", addr |-> "lessor"]

\* lines 290-302: accountFromSKAndDifferentPK (lines 80-90) keeps the secret
\* key and takes the public key and the address of the override;
\* accountFromSK derives them from the secret key
LessorAccount(c) ==
    IF c.lessorPK
    THEN [sk |-> "lessorSK", pk |-> "overridePK", addr |-> "override"]
    ELSE [sk |-> "lessorSK", pk |-> "lessorPK", addr |-> "lessor"]

\* mutant: the lease always goes to the generating account
LeasingRecipient_Generator(c) == GeneratorAccount

\* lines 305-308: the recipient of the lease
LeasingRecipient(c) ==
    IF c.leasingAddress THEN AccountFromAddress("leasing") ELSE GeneratorAccount

\* lines 286-303: the account the transfer goes to
TransferRecipientAccount(c) ==
    IF TransferRecipient(c.transferOnly) = "recipient"
    THEN AccountFromAddress("recipient")
    ELSE LessorAccount(c)

\* lines 361 and 451: the account whose public key is the sender of each
\* transaction
SenderAccount(k) == IF k = "transfer" THEN GeneratorAccount ELSE LessorAccount(cfg)

\* lines 361 and 451: the sender of each transaction
Sender(k) == SenderAccount(k).addr

\* lines 303-308, 361 and 451: the recipient of each transaction
Recipient(k) ==
    IF k = "transfer" THEN TransferRecipientAccount(cfg).addr
    ELSE LeasingRecipient(cfg).addr

\* mutant: each transaction is signed with the key of the account it goes to
SigningKey_OfRecipient(k) ==
    IF k = "transfer" THEN TransferRecipientAccount(cfg).sk
    ELSE LeasingRecipient(cfg).sk

\* lines 362 and 452: the secret key each transaction is signed with
SigningKey(k) == IF k = "transfer" THEN GeneratorAccount.sk ELSE "lessorSK"

\* lines 315 and 399: the address whose balance is asked for
BalanceAddr(k) == SenderAccount(k).addr

\* mutant: the extra fee is asked once, for the generating address
ExtraFeeAddr_Generator(k) == "generator"

\* lines 342 and 426: the address whose extra fee is asked for
ExtraFeeAddr(k) == SenderAccount(k).addr

\* the names under which the calls of a phase are counted
BalanceCall(k) == IF k = "transfer" THEN "balanceGenerator" ELSE "balanceLessor"

ExtraFeeCall(k) == IF k = "transfer" THEN "extraFeeGenerator" ELSE "extraFeeLessor"

SignCall(k) == IF k = "transfer" THEN "signTransfer" ELSE "signLease"

BroadcastCall(k) == IF k = "transfer" THEN "broadcastTransfer" ELSE "broadcastLease"

InfoCall(k) == IF k = "transfer" THEN "infoTransfer" ELSE "infoLease"

\* ------------------------------------------------------------------------
\* Initial state: the flags are parsed (line 142)
\* ------------------------------------------------------------------------
\* lessorSK, lessorPK, leasingAddress, recipientAddress: the flag is given and
\* well formed; invalid: the one flag that is malformed (or required and
\* missing), "none" if there is none
AllConfigs ==
    [transferOnly : BOOLEAN, dryRun : BOOLEAN, testRun : BOOLEAN,
     irreducibleBalance : IrreducibleBalances \cup {-1},
     leasingThreshold : LeasingThresholds,
     lessorSK : BOOLEAN, lessorPK : BOOLEAN, leasingAddress : BOOLEAN,
     recipientAddress : BOOLEAN,
     invalid : {"none", "nodeURLEmpty", "nodeURLMalformed", "generatorSK",
                "recipientAddress", "lessorSK", "lessorPK", "leasingAddress"}]

\* the plain command lines of each mode: no override, every policy flag
Configs ==
    {c \in AllConfigs :
        /\ c.invalid = "none"
        /\ c.irreducibleBalance >= 0
        /\ c.lessorSK = ~c.transferOnly
        /\ c.recipientAddress = c.transferOnly
        /\ ~c.lessorPK /\ ~c.leasingAddress}

\* the flags the mode of the run does not read (lines 178-221)
IgnoredParams(transferOnly) ==
    IF transferOnly THEN {"lessorSK", "lessorPK", "leasingAddress"}
    ELSE {"recipientAddress"}

\* command lines with and without the overrides and with flags of the other
\* mode, given or even malformed; one policy
IdentityConfigs ==
    {c \in AllConfigs :
        /\ c.invalid \in {"none"} \cup IgnoredParams(c.transferOnly)
        /\ c.invalid # "none" => ~c[c.invalid]
        /\ ~c.testRun
        /\ c.irreducibleBalance = 0
        /\ c.leasingThreshold = 0
        /\ c.transferOnly => c.recipientAddress
        /\ ~c.transferOnly => c.lessorSK}

\* the parameter of the command line that is missing or malformed, for the
\* parameters the mode of the run reads (lines 153-225)
InvalidParams(transferOnly) ==
    {"nodeURLEmpty", "nodeURLMalformed", "generatorSK"} \cup
    (IF transferOnly THEN {"recipientAddress"}
     ELSE {"lessorSK", "lessorPK", "leasingAddress"})

\* command lines with one bad parameter; a negative irreducible balance is
\* the value -1
BadConfigs ==
    {c \in AllConfigs :
        /\ ~c.dryRun /\ ~c.testRun
        /\ c.irreducibleBalance \in {-1, waves}
        /\ c.leasingThreshold = 0
        /\ (c.invalid = "none") = (c.irreducibleBalance < 0)
        /\ c.invalid # "none" => c.invalid \in InvalidParams(c.transferOnly)
        /\ c.lessorSK = (~c.transferOnly /\ c.invalid # "lessorSK")
        /\ c.recipientAddress = (c.transferOnly /\ c.invalid # "recipientAddress")
        /\ ~c.lessorPK /\ ~c.leasingAddress}

\* lines 153-225: what the checks of the parameters return, "ok" when run()
\* goes on.  A node URL that normalizeURL rejects is only logged (lines
\* 157-161); a bad lessor public key or leasing address returns errFailure
\* (lines 207, 217).
ValidateParams(c) ==
    IF c.invalid \in {"nodeURLEmpty", "generatorSK"} THEN "invalid"
    ELSE IF c.transferOnly /\ c.invalid = "recipientAddress" THEN "invalid"
    ELSE IF ~c.transferOnly /\ c.invalid = "lessorSK" THEN "invalid"
    ELSE IF ~c.transferOnly /\ c.invalid \in {"lessorPK", "leasingAddress"}
    THEN "failure"
    ELSE IF c.irreducibleBalance < 0 THEN "invalid"
    ELSE "ok"

\* line 161: after a rejected node URL nodeURL is the empty string, which
\* nodeClient cannot reach
NodeURLUsable(c) == c.invalid # "nodeURLMalformed"

\* the balances and extra fees of the runs that vary the accounts: every
\* address holds a different balance, the two lessor addresses differ in
\* their extra fee
IdentityBalances ==
    [a \in Addrs |->
        IF a = "generator" THEN 150000000
        ELSE IF a = "lessor" THEN 500000
        ELSE IF a = "override" THEN 700000
        ELSE 0]

IdentityExtraFees == [a \in Addrs |-> IF a = "override" THEN 400000 ELSE 0]

\* signals sent to the process in one run
MaxSignals == 3

\* the listener of sigterm.go is not started by run().  pc: the position of
\* its goroutine; chan: signals in the channel (capacity 1); sent: signals
\* sent to the process; cancels: calls of cancel(); again: signals logged as
\* caught again
ListenerOff == [pc |-> "off", chan |-> 0, sent |-> 0, cancels |-> 0, again |-> 0]

\* run() is going to call interruptListener, as the run() before
\* signal.NotifyContext did
ListenerIdle == [ListenerOff EXCEPT !.pc = "idle"]

\* mutant: every signal is handled as the first one
ListenerReceives_AlwaysFirst(l) ==
    [l EXCEPT !.pc = "draining", !.chan = 0, !.cancels = @ + 1]

\* sigterm.go lines 23-28: the goroutine takes a signal from the channel; the
\* first one is followed by cancel(), the later ones by a log line
ListenerReceives(l) ==
    IF l.pc = "waiting"
    THEN [l EXCEPT !.pc = "draining", !.chan = 0, !.cancels = @ + 1]
    ELSE [l EXCEPT !.chan = 0, !.again = @ + 1]

\* everything but the listener
InitRun ==
    /\ \/ \* every policy, the plain accounts
          /\ cfg \in Configs
          /\ chain \in [scheme : {"W"}, features : PlainFeatureLists]
          /\ \E g \in GeneratorBalances, l \in LessorBalances :
                /\ g + l <= MaxSupply
                /\ chainBal = [a \in Addrs |->
                      IF a = "generator" THEN g ELSE IF a = "lessor" THEN l ELSE 0]
          /\ \E eg \in ExtraFees, el \in ExtraFees :
                extraFee = [a \in Addrs |->
                      IF a = "generator" THEN eg ELSE IF a = "lessor" THEN el ELSE 0]
       \/ \* a bad parameter
          /\ cfg \in BadConfigs
          /\ chain \in [scheme : {"W"}, features : {<<>>}]
          /\ chainBal = [a \in Addrs |-> IF a = "generator" THEN 150000000 ELSE 0]
          /\ extraFee = [a \in Addrs |-> 0]
       \/ \* every choice of accounts, both schemes
          /\ cfg \in IdentityConfigs
          /\ chain \in [scheme : Schemes, features : PlainFeatureLists]
          /\ chainBal = IdentityBalances
          /\ extraFee = IdentityExtraFees
       \/ \* every list of features, a dry run of both transactions
          /\ cfg \in {c \in Configs : /\ ~c.transferOnly /\ c.dryRun /\ ~c.testRun
                                     /\ c.irreducibleBalance = 0
                                     /\ c.leasingThreshold = 0}
          /\ chain \in [scheme : {"T"}, features : FeatureLists]
          /\ chainBal = IdentityBalances
          /\ extraFee = IdentityExtraFees
    /\ pc = "validate"
    /\ scheme = "none"
    /\ lastLookup = "none"
    /\ exitCode = -1
    /\ result = "none"
    /\ cancelled = FALSE
    /\ txVer = 0
    /\ balance = 0
    /\ fee = 0
    /\ amount = 0
    /\ phase = "transfer"
    /\ txs = [k \in Kinds |-> NoTx]
    /\ observed = [k \in Kinds |-> [raw |-> -1, adjusted |-> -1, extra |-> -1,
                                     balanceOf |-> "none", extraOf |-> "none"]]
    /\ rendered = {}
    /\ calls = [c \in CallNames |-> 0]
    /\ polls = 0
    /\ chainBal0 = chainBal
    /\ pending = {}
    /\ mined = {}

Init == InitRun /\ listener = ListenerOff

\* ------------------------------------------------------------------------
\* Steps of run()
\* ------------------------------------------------------------------------
localVars == <<txVer, scheme, balance, fee, amount, phase, txs, observed, rendered,
               polls, lastLookup>>

nodeVars == <<chainBal, chainBal0, extraFee, pending, mined>>

\* mutant: the error is noted and the step is made again
Return_KeepGoing(r) == pc' = pc /\ result' = r

\* run() returns r
Return(r) == pc' = "done" /\ result' = r

Count(c) == calls' = [calls EXCEPT ![c] = @ + 1]

\* lines 393-396 and 483-484: what follows a transaction that is rendered or
\* found on the blockchain
AfterSubmit(k) ==
    IF k = "transfer" /\ ~EarlyExit(cfg.transferOnly)
    THEN pc' = "balance" /\ phase' = "lease" /\ result' = result
    ELSE Return("ok") /\ phase' = phase

\* the signal arrives: signal.NotifyContext cancels ctx (line 236).  The
\* context exists from the end of the parameter checks until the process
\* exits; at pc = "done" run() is still on its way out (the log line, the
\* return, the deferred done()).
Interrupt ==
    /\ pc # "validate"
    /\ exitCode = -1
    /\ ~cancelled
    /\ cancelled' = TRUE
    /\ UNCHANGED <<cfg, chain, pc, result, calls, localVars, exitCode, listener, nodeVars>>

\* the checks of the parameters and the creation of ctx (lines 153-237)
Validate ==
    /\ pc = "validate"
    /\ LET v == ValidateParams(cfg)
       IN  IF v = "ok"
           THEN /\ pc' = "connect"
                /\ result' = result
                /\ listener' = IF listener.pc = "idle"
                               THEN [listener EXCEPT !.pc = "spawned"]
                               ELSE listener
           ELSE Return(v) /\ listener' = listener
    /\ UNCHANGED <<cfg, chain, cancelled, calls, localVars, exitCode, nodeVars>>

\* mutant: run() hands the error of the failed call itself to main
ExitStatus_Unclassified(r) ==
    IF r = "ok" THEN 0
    ELSE IF r = "invalid" THEN 2
    ELSE IF r = "terminated" THEN 130
    ELSE IF r = "failure" THEN 1
    ELSE 2

\* main (lines 96-111): the exit status for what run() returned; a panic of
\* run() never reaches main, the Go runtime exits with status 2
ExitStatus(r) ==
    IF r = "ok" THEN 0
    ELSE IF r = "invalid" THEN 2
    ELSE IF r = "terminated" THEN 130
    ELSE IF r = "failure" THEN 70
    ELSE IF r = "panic" THEN 2
    ELSE 1

\* main (lines 96-111): the process exits
Exit ==
    /\ pc = "done"
    /\ exitCode = -1
    /\ exitCode' = ExitStatus(result)
    /\ UNCHANGED <<cfg, chain, pc, result, cancelled, calls, localVars, listener,
                   nodeVars>>

\* nodeClient (lines 548-574): with the empty URL the request for the height
\* has no host and fails before anything is sent, cancelled context or not
ConnectOutcomes ==
    IF NodeURLUsable(cfg) THEN NetOutcomes ELSE (NetOutcomes \ {"ok"}) \cup {"error"}

\* 1. Check connection to node's API (lines 240-248)
Connect ==
    /\ pc = "connect"
    /\ Count("height")
    /\ \E o \in ConnectOutcomes :
          IF o = "ok" THEN pc' = "scheme" /\ result' = result
          ELSE Return(ClassifyError(o))
    /\ UNCHANGED <<cfg, chain, cancelled, localVars, exitCode, listener, nodeVars>>

\* 2. Acquire the network scheme (lines 251-259)
GetScheme ==
    /\ pc = "scheme"
    /\ Count("lastBlock")
    /\ \E o \in NetOutcomes :
          IF o = "ok"
          THEN pc' = "activation" /\ result' = result /\ scheme' = chain.scheme
          ELSE Return(ClassifyError(o)) /\ scheme' = scheme
    /\ UNCHANGED <<cfg, chain, cancelled, txVer, balance, fee, amount, phase, txs,
                   observed, rendered, polls, lastLookup, exitCode, listener,
                   nodeVars>>

\* Protobuf activation status and 3. the accounts (lines 260-312)
Activation ==
    /\ pc = "activation"
    /\ Count("activation")
    /\ \E o \in NetOutcomes :
          \/ /\ o # "ok"
             /\ Return(ClassifyError(o))
             /\ txVer' = txVer
          \/ /\ o = "ok"
             /\ txVer' = TxVersion(IsProtobufActivated(chain.features))
             /\ \/ pc' = "balance" /\ result' = result
                \/ Return("failure")     \* an account cannot be derived
    /\ UNCHANGED <<cfg, chain, cancelled, scheme, balance, fee, amount, phase, txs,
                   observed, rendered, polls, lastLookup, exitCode, listener,
                   nodeVars>>

\* mutant: the node's answer with the printed, never submitted transfer of a
\* dry run credited to its recipient
getAvailableWavesBalance_CreditPrinted(a) ==
    IF "transfer" \in rendered /\ transfer.recipient = a
    THEN chainBal[a] + transfer.amount
    ELSE chainBal[a]

\* getAvailableWavesBalance (lines 515-521): the available balance the node
\* reports for the address
getAvailableWavesBalance(a) == chainBal[a]

\* 4. and 6. The available balance of the sender and the balance policy
\* (lines 315-339 for the generator, 399-423 for the lessor)
GetBalance(k) ==
    /\ pc = "balance"
    /\ phase = k
    /\ Count(BalanceCall(k))
    /\ \E o \in NetOutcomes :
          \/ /\ o # "ok"
             /\ Return(ClassifyError(o))
             /\ UNCHANGED <<balance, observed>>
          \/ /\ o = "ok"
             /\ LET raw == getAvailableWavesBalance(BalanceAddr(k))
                    b   == ReserveBalance(raw, cfg.irreducibleBalance)
                IN  /\ observed' = [observed EXCEPT ![k].raw = raw,
                                                    ![k].adjusted = b,
                                                    ![k].balanceOf = BalanceAddr(k)]
                    /\ IF NotEnoughBalance(b)
                       THEN balance' = b /\ Return("failure")
                       ELSE /\ balance' = CapTestRun(b, cfg.testRun)
                            /\ pc' = "fee"
                            /\ result' = result
    /\ UNCHANGED <<cfg, chain, cancelled, txVer, scheme, fee, amount, phase, txs, rendered,
                   polls, lastLookup, exitCode, listener, nodeVars>>

GeneratorBalance == GetBalance("transfer")

LessorBalance == GetBalance("lease")

\* the unsigned transaction of lines 361 and 451
NewUnsigned(k, a, f) ==
    [kind |-> k, version |-> txVer, sender |-> Sender(k),
     senderPK |-> SenderAccount(k).pk,
     recipient |-> Recipient(k), amount |-> a, fee |-> f, signed |-> FALSE,
     signedWith |-> "none", scheme |-> "none"]

\* mutant: the transactions are always signed for the main network
SignTx_MainNet(tx, k) ==
    [tx EXCEPT !.signed = TRUE, !.signedWith = SigningKey(k), !.scheme = "W"]

\* Sign of lines 362 and 452: for the scheme of the run, with the secret key
SignTx(tx, k) ==
    [tx EXCEPT !.signed = TRUE, !.signedWith = SigningKey(k), !.scheme = scheme]

\* 5. and 7. The extra fee, the amount, the transaction and its signature;
\* in a dry run also its JSON (lines 342-374 for the transfer, 426-464 for
\* the lease)
BuildTx(k) ==
    /\ pc = "fee"
    /\ phase = k
    /\ \E o \in NetOutcomes :
          \/ /\ o # "ok"
             /\ Return(ClassifyError(o))
             /\ Count(ExtraFeeCall(k))
             /\ UNCHANGED <<fee, amount, phase, txs, observed, rendered>>
          \/ /\ o = "ok"
             /\ LET extra == extraFee[ExtraFeeAddr(k)]
                    f     == TxFee(extra)
                    a     == TxAmount(balance, f)
                IN  /\ observed' = [observed EXCEPT ![k].extra = extra,
                                                    ![k].extraOf = ExtraFeeAddr(k)]
                    /\ fee' = f
                    /\ amount' = a
                    /\ IF NonPositiveAmount(a)
                       THEN /\ Return("failure")
                            /\ Count(ExtraFeeCall(k))
                            /\ UNCHANGED <<phase, txs, rendered>>
                       ELSE IF k = "lease" /\ BelowThreshold(a, cfg.leasingThreshold)
                       THEN /\ Return("ok")
                            /\ Count(ExtraFeeCall(k))
                            /\ UNCHANGED <<phase, txs, rendered>>
                       ELSE /\ calls' = [calls EXCEPT ![ExtraFeeCall(k)] = @ + 1,
                                                      ![SignCall(k)] = @ + 1]
                            /\ \/ \* Sign fails
                                  /\ txs' = [txs EXCEPT ![k] = NewUnsigned(k, a, f)]
                                  /\ Return("failure")
                                  /\ UNCHANGED <<phase, rendered>>
                               \/ \* signed, dry run, json.Marshal fails
                                  /\ SubmitMode(cfg.dryRun) = "render"
                                  /\ txs' = [txs EXCEPT ![k] =
                                        SignTx(NewUnsigned(k, a, f), k)]
                                  /\ Return("failure")
                                  /\ UNCHANGED <<phase, rendered>>
                               \/ \* signed, dry run, printed
                                  /\ SubmitMode(cfg.dryRun) = "render"
                                  /\ txs' = [txs EXCEPT ![k] =
                                        SignTx(NewUnsigned(k, a, f), k)]
                                  /\ rendered' = rendered \cup {k}
                                  /\ AfterSubmit(k)
                               \/ \* signed, to be broadcast
                                  /\ SubmitMode(cfg.dryRun) = "broadcast"
                                  /\ txs' = [txs EXCEPT ![k] =
                                        SignTx(NewUnsigned(k, a, f), k)]
                                  /\ pc' = "broadcast"
                                  /\ result' = result
                                  /\ UNCHANGED <<phase, rendered>>
    /\ UNCHANGED <<cfg, chain, cancelled, txVer, scheme, balance, polls, lastLookup, exitCode, listener,
                   nodeVars>>

BuildTransfer == BuildTx("transfer")

BuildLease == BuildTx("lease")

\* broadcast (lines 487-490) and its error branch in run() (lines 376-383 for
\* the transfer, 466-473 for the lease)
Broadcast(k) ==
    /\ pc = "broadcast"
    /\ phase = k
    /\ Count(BroadcastCall(k))
    /\ \/ \E o \in BroadcastOutcomes(txs[k]) :
             IF o = "ok"
             THEN /\ pending' = pending \cup {k}
                  /\ pc' = "track"
                  /\ result' = result
                  /\ UNCHANGED <<cancelled, listener>>
             ELSE /\ Return(ClassifyError(o))
                  /\ UNCHANGED <<pending, cancelled, listener>>
       \/ \* the signal arrives while the request is in flight: the node has
          \* the transaction, the call returns the cancellation
          /\ ~cancelled
          /\ NodeAccepts(txs[k])
          /\ IF listener.pc = "off" THEN listener' = listener
             ELSE /\ listener.pc = "waiting"
                  /\ listener.chan = 1
                  /\ listener' = ListenerReceives(listener)
          /\ cancelled' = TRUE
          /\ pending' = pending \cup {k}
          /\ Return(ClassifyError("canceled"))
    /\ polls' = 0
    /\ lastLookup' = "none"
    /\ UNCHANGED <<cfg, chain, txVer, scheme, balance, fee, amount, phase, txs, observed,
                   rendered, exitCode, chainBal, chainBal0, extraFee, mined>>

BroadcastTransfer == Broadcast("transfer")

BroadcastLease == Broadcast("lease")

\* mutant: track() gives up on a transaction that is not found
TrackDecision_GiveUp(o) ==
    IF o \in {"canceled", "notfound"} THEN "err"
    ELSE IF o = "found" THEN "nil"
    ELSE "panic"

\* mutant: track() returns only for the cancellation
TrackDecision_KeepPolling(o) == IF o = "canceled" THEN "err" ELSE "sleep"

\* lines 495-501: what track() does with the answer of one lookup.  The
\* cancellation is returned, status 200 returns nil, any other status sleeps;
\* with no response at all rsp is nil and rsp.StatusCode panics.
TrackDecision(o) ==
    IF o = "canceled" THEN "err"
    ELSE IF o = "found" THEN "nil"
    ELSE IF o = "notfound" THEN "sleep"
    ELSE "panic"

\* one turn of the loop of track (lines 494-501) and what run() does with
\* its result (lines 384-396 for the transfer, 474-484 for the lease)
Track(k) ==
    /\ pc = "track"
    /\ phase = k
    /\ polls' = IF polls < MaxPolls THEN polls + 1 ELSE polls
    /\ calls' = [calls EXCEPT ![InfoCall(k)] = IF @ < MaxPolls THEN @ + 1 ELSE @]
    /\ \E o \in LookupOutcomes(k) :
          /\ lastLookup' = o
          /\ LET d == TrackDecision(o)
             IN  \/ d = "err" /\ Return(ClassifyError(o)) /\ phase' = phase
                 \/ d = "nil" /\ AfterSubmit(k)
                 \/ d = "sleep" /\ pc' = "sleep" /\ result' = result /\ phase' = phase
                 \/ d = "panic" /\ Return("panic") /\ phase' = phase
    /\ UNCHANGED <<cfg, chain, cancelled, txVer, scheme, balance, fee, amount, txs, observed,
                   rendered, exitCode, listener, nodeVars>>

TrackTransfer == Track("transfer")

TrackLease == Track("lease")

\* time.Sleep(time.Second) of track (line 502)
Sleep ==
    /\ pc = "sleep"
    /\ pc' = "track"
    /\ UNCHANGED <<cfg, chain, result, cancelled, calls, localVars, exitCode, listener, nodeVars>>

\* the node puts a broadcast transaction in a block
Mine ==
    \E k \in pending :
        /\ pending' = pending \ {k}
        /\ mined' = mined \cup {k}
        /\ chainBal' = Applied(chainBal, txs[k])
        /\ UNCHANGED <<cfg, chain, pc, result, cancelled, calls, localVars, exitCode, listener,
                       chainBal0, extraFee>>

Next ==
    \/ Interrupt
    \/ Validate
    \/ Exit
    \/ Connect
    \/ GetScheme
    \/ Activation
    \/ GeneratorBalance
    \/ BuildTransfer
    \/ BroadcastTransfer
    \/ TrackTransfer
    \/ LessorBalance
    \/ BuildLease
    \/ BroadcastLease
    \/ TrackLease
    \/ Sleep
    \/ Mine

Spec == Init /\ [][Next]_vars

\* the steps of the process itself: the goroutine of main runs whenever it
\* can; the interrupt and the node's blocks are the environment's
RunStep ==
    \/ Validate
    \/ Exit
    \/ Connect
    \/ GetScheme
    \/ Activation
    \/ GeneratorBalance
    \/ BuildTransfer
    \/ BroadcastTransfer
    \/ TrackTransfer
    \/ LessorBalance
    \/ BuildLease
    \/ BroadcastLease
    \/ TrackLease
    \/ Sleep

\* the runs the termination is checked on: every mode, with and without
\* enough balance, no extra fees
InitLive ==
    /\ Init
    /\ chainBal["generator"] \in {100000, 150000000}
    /\ chainBal["lessor"] \in {0, 500000}
    /\ \A a \in Addrs : extraFee[a] = 0

SpecLive == InitLive /\ [][Next]_vars /\ WF_vars(RunStep)

\* ------------------------------------------------------------------------
\* The interrupt listener of sigterm.go as the source of ctx
\* ------------------------------------------------------------------------
\* sigterm.go lines 21-22: the goroutine makes the channel and registers it
ListenerNotify ==
    /\ listener.pc = "spawned"
    /\ exitCode = -1
    /\ listener' = [listener EXCEPT !.pc = "waiting"]
    /\ UNCHANGED <<cfg, chain, pc, result, cancelled, calls, localVars, exitCode,
                   nodeVars>>

\* an interrupt signal is sent to the process.  signal.Notify never blocks:
\* with the channel full the signal is lost.  Before the goroutine has
\* registered the channel the signal has its default effect, which ends
\* the process.
Signal ==
    /\ exitCode = -1
    /\ listener.pc \in {"spawned", "waiting", "draining"}
    /\ listener.sent < MaxSignals
    /\ IF listener.pc = "spawned"
       THEN /\ listener' = [listener EXCEPT !.sent = @ + 1]
            /\ pc' = "done"
            /\ result' = "killed"
            /\ exitCode' = 130
       ELSE /\ listener' = [listener EXCEPT !.sent = @ + 1, !.chan = 1]
            /\ UNCHANGED <<pc, result, exitCode>>
    /\ UNCHANGED <<cfg, chain, cancelled, calls, localVars, nodeVars>>

\* sigterm.go lines 23-28: the goroutine receives a signal
ListenerReceive ==
    /\ exitCode = -1
    /\ listener.pc \in {"waiting", "draining"}
    /\ listener.chan = 1
    /\ listener' = ListenerReceives(listener)
    /\ cancelled' = (cancelled \/ listener'.cancels > listener.cancels)
    /\ UNCHANGED <<cfg, chain, pc, result, calls, localVars, exitCode, nodeVars>>

\* the runs the listener is checked with: every mode and policy, one pair of
\* balances
InitListener ==
    /\ InitRun
    /\ cfg \in Configs
    /\ chainBal["generator"] = 150000000
    /\ chainBal["lessor"] = 500000
    /\ \A a \in Addrs : extraFee[a] = 0
    /\ chain.features = <<>>
    /\ listener = ListenerIdle

NextListener ==
    \/ ListenerNotify
    \/ Signal
    \/ ListenerReceive
    \/ RunStep
    \/ Mine

SpecListener == InitListener /\ [][NextListener]_vars

\* ------------------------------------------------------------------------
\* The amount policy in mathematical integers, as the specification states it
\* ------------------------------------------------------------------------
\* the balance of phase k after the reservation, clamped at zero
MathReserved(k) ==
    LET d == observed[k].raw - cfg.irreducibleBalance
    IN  IF d > 0 THEN d ELSE 0

\* the test-run cap applies to the balance of phase k
CapApplies(k) == cfg.testRun /\ MathReserved(k) > waves

\* the policy-adjusted balance of phase k
MathAdjusted(k) == IF CapApplies(k) THEN waves ELSE MathReserved(k)

\* the fee of phase k
MathFee(k) == standardFee + observed[k].extra

\* phase k has read its balance, has read its extra fee
BalanceRead(k) == observed[k].raw # -1

ExtraFeeRead(k) == observed[k].extra # -1

Built(k) == txs[k] # NoTx

\* ------------------------------------------------------------------------
\* Claims
\* ------------------------------------------------------------------------

\* C1: in both phases, whenever the policy-adjusted balance minus the fee
\* (standard fee plus extra fee) is not positive, the run ends with operation
\* failure and no transaction of that phase is built, signed or submitted.
C1_NonPositiveAmountRejected ==
    \A k \in Kinds :
        (ExtraFeeRead(k) /\ MathAdjusted(k) - MathFee(k) <= 0)
            => /\ result = "failure"
               /\ ~Built(k)
               /\ calls[SignCall(k)] = 0
               /\ calls[BroadcastCall(k)] = 0

\* C2: whenever the raw balance of a phase exceeds irreducible balance +
\* standard fee + extra fee and the test-run cap does not apply, the
\* transaction of the phase is built (unless the lease is skipped by the
\* leasing threshold) and its amount is exactly raw balance - irreducible
\* balance - standard fee - extra fee.
C2_ExactAmount ==
    \A k \in Kinds :
        (/\ ExtraFeeRead(k)
         /\ observed[k].raw > cfg.irreducibleBalance + standardFee + observed[k].extra
         /\ ~CapApplies(k))
            => LET exact == observed[k].raw - cfg.irreducibleBalance
                              - standardFee - observed[k].extra
               IN  /\ phase = k => amount = exact
                   /\ Built(k) => txs[k].amount = exact /\ txs[k].fee = MathFee(k)
                   /\ ~Built(k) => /\ k = "lease"
                                   /\ cfg.leasingThreshold > 0
                                   /\ exact < cfg.leasingThreshold

\* C2 witness: the scenario 150_000_000 - 100_000_000 - 100_000 - 0 for the
\* transfer, and a lease built below the cap in the same run
C2_Witness ==
    /\ observed["transfer"].raw = 150000000
    /\ cfg.irreducibleBalance = 100000000
    /\ observed["transfer"].extra = 0
    /\ Built("transfer")
    /\ transfer.amount = 49900000
    /\ Built("lease")
    /\ ~cfg.testRun
    /\ observed["lease"].extra = 400000
    /\ lease.amount = observed["lease"].raw - 100000000 - 500000

\* C3: when the balance after the reservation (clamped at zero) is at most
\* the standard fee the run ends with operation failure before the extra fee
\* is queried and before a transaction is built; the clamped balance is
\* never negative and is zero for every raw balance <= irreducible balance.
C3_InsufficientBalance ==
    \A k \in Kinds :
        BalanceRead(k) =>
            /\ observed[k].adjusted >= 0
            /\ observed[k].adjusted = MathReserved(k)
            /\ observed[k].raw <= cfg.irreducibleBalance => observed[k].adjusted = 0
            /\ MathReserved(k) <= standardFee =>
                  /\ result = "failure"
                  /\ calls[ExtraFeeCall(k)] = 0
                  /\ ~ExtraFeeRead(k)
                  /\ ~Built(k)
                  /\ calls[SignCall(k)] = 0

\* C3 witness: raw balance 100_000 with no irreducible balance fails in the
\* transfer phase
C3_Witness ==
    /\ observed["transfer"].raw = 100000
    /\ cfg.irreducibleBalance = 0
    /\ result = "failure"
    /\ calls["extraFeeGenerator"] = 0

\* C4: for every transaction built, amount + fee never exceeds the raw
\* balance of the sender minus the irreducible balance.
C4_ReserveKept ==
    \A k \in Kinds :
        Built(k) =>
            /\ txs[k].amount + txs[k].fee <= observed[k].raw - cfg.irreducibleBalance
            /\ txs[k].amount <= observed[k].raw

\* the lease phase has computed an amount that passed the positive-amount
\* check (lines 439-444)
LeaseAmountComputed ==
    /\ phase = "lease"
    /\ ExtraFeeRead("lease")
    /\ ~NonPositiveAmount(amount)

\* nothing of the lease exists: not built, not signed, not printed, not sent
NoLeaseAtAll ==
    /\ ~Built("lease")
    /\ calls["signLease"] = 0
    /\ calls["broadcastLease"] = 0
    /\ "lease" \notin rendered \cup pending \cup mined

C6_LeaseOnlyAboveThreshold ==
    Built("lease") => lease.amount > cfg.leasingThreshold

\* C7: in transfer-only mode no step of the lease phase is ever taken (no
\* lessor balance or extra-fee query, no lease built, signed, broadcast or
\* tracked) and the run ends with success once the transfer is printed or
\* found on the blockchain.
C7_TransferOnlyNoLease ==
    cfg.transferOnly =>
        /\ phase = "transfer"
        /\ calls["balanceLessor"] = 0
        /\ calls["extraFeeLessor"] = 0
        /\ calls["infoLease"] = 0
        /\ ~BalanceRead("lease")
        /\ NoLeaseAtAll
        /\ "transfer" \in rendered => (pc = "done" /\ result = "ok")
        /\ result = "ok" => ("transfer" \in rendered \/ "transfer" \in mined)

\* C7 witness: a transfer-only run ends with success after its transfer is
\* found on the blockchain
C7_Witness ==
    /\ cfg.transferOnly
    /\ result = "ok"
    /\ "transfer" \in mined
    /\ calls["infoTransfer"] >= 1

\* C8: in a dry run broadcast and track are never called, a signed
\* transaction is printed as JSON (or the run has failed printing it), and the
\* node's state stays what it was when the run started.
C8_DryRunNoMutation ==
    cfg.dryRun =>
        /\ \A k \in Kinds :
              /\ calls[BroadcastCall(k)] = 0
              /\ calls[InfoCall(k)] = 0
        /\ \A k \in Kinds :
              (Built(k) /\ txs[k].signed /\ k \notin rendered) =>
                  (pc = "done" /\ result = "failure")
        /\ pending = {}
        /\ mined = {}
        /\ chainBal = chainBal0

\* C8 witness: a dry run that printed both transactions and ended with success
C8_Witness ==
    /\ cfg.dryRun
    /\ rendered = {"transfer", "lease"}
    /\ transfer.signed
    /\ lease.signed
    /\ result = "ok"

\* C9: broadcast is called at most once for each transaction, a transaction
\* is never both printed and broadcast, and after a broadcast that did not
\* deliver the transaction the run is over: with operation failure, or with
\* user termination when the failure is the cancellation.
C9_SubmittedAtMostOnce ==
    \A k \in Kinds :
        /\ calls[BroadcastCall(k)] <= 1
        /\ ~(k \in rendered /\ calls[BroadcastCall(k)] > 0)
        /\ k \in pending \cup mined => calls[BroadcastCall(k)] = 1
        /\ (calls[BroadcastCall(k)] = 1 /\ k \notin pending \cup mined) =>
              /\ pc = "done"
              /\ result \in {"failure", "terminated"}
              /\ result = "terminated" => cancelled

\* C9 witness: the broadcast of the lease failed after the transfer was mined
C9_Witness ==
    /\ calls["broadcastLease"] = 1
    /\ "lease" \notin pending \cup mined
    /\ "transfer" \in mined
    /\ ~cancelled
    /\ result = "failure"

\* C10: once the context is cancelled while track is polling or sleeping, the
\* next lookup returns the cancellation (no further sleep is started), the
\* run ends with user termination and nothing is broadcast any more.
C10_CancelDuringPolling ==
    [][(cancelled /\ pc \in {"track", "sleep"}) =>
          /\ pc' \in {"track", "sleep", "done"}
          /\ pc = "track" => pc' # "sleep"
          /\ (pc = "track" /\ pc' # "track") => (pc' = "done" /\ result' = "terminated")
          /\ pc' = "done" => result' = "terminated"
          /\ \A k \in Kinds : calls'[BroadcastCall(k)] = calls[BroadcastCall(k)]
          /\ pending' \subseteq pending
          /\ pending' \cup mined' = pending \cup mined]_vars

\* C10 witness: the run ended with user termination after a lookup of the
\* transfer had already answered not found
C10_Witness ==
    /\ cancelled
    /\ result = "terminated"
    /\ calls["infoTransfer"] >= 2
    /\ calls["broadcastLease"] = 0
    /\ "transfer" \in pending

\* the calls run() makes in the lease phase (lines 398-482)
LeasePhaseCalls ==
    {BalanceCall("lease"), ExtraFeeCall("lease"), SignCall("lease"),
     BroadcastCall("lease"), InfoCall("lease")}

\* C11: in a run that is not a dry run, the lease phase is entered only by the
\* lookup of track() that finds the broadcast transfer on the blockchain, and
\* every call of the lease phase is made after that; while the transfer is
\* not confirmed no call of the lease phase has been made.
C11_TransferConfirmedFirst ==
    [][~cfg.dryRun =>
          /\ (phase # "lease" /\ phase' = "lease") =>
                /\ pc = "track"
                /\ lastLookup' = "found"
                /\ calls["broadcastTransfer"] = 1
                /\ "transfer" \in mined
          /\ phase = "lease" => phase' = "lease"
          /\ phase' # "lease" => \A c \in LeasePhaseCalls : calls'[c] = 0
          /\ (\E c \in LeasePhaseCalls : calls'[c] # calls[c]) =>
                /\ phase = "lease"
                /\ calls["broadcastTransfer"] = 1
                /\ calls["infoTransfer"] >= 1
                /\ "transfer" \in mined
                /\ "transfer" \notin pending]_vars

\* C11 witness: the lease was broadcast in a real run, after the transfer was
\* first not found and then found
C11_Witness ==
    /\ ~cfg.dryRun
    /\ calls["broadcastLease"] = 1
    /\ calls["infoTransfer"] >= 2
    /\ "transfer" \in mined

\* the transfer went through: printed in a dry run, found on the blockchain
\* otherwise
TransferDone ==
    IF cfg.dryRun THEN "transfer" \in rendered
    ELSE calls["broadcastTransfer"] = 1 /\ "transfer" \in mined

\* the same for the lease
LeaseDone ==
    IF cfg.dryRun THEN "lease" \in rendered
    ELSE calls["broadcastLease"] = 1 /\ "lease" \in mined

\* success is reported only when every step of the run succeeded
SuccessJustified ==
    result = "ok" =>
        /\ TransferDone
        /\ \/ cfg.transferOnly
           \/ LeaseDone
           \/ /\ LeaseAmountComputed
              /\ BelowThreshold(amount, cfg.leasingThreshold)
              /\ NoLeaseAtAll

C13_InterruptAlwaysTerminates ==
    (cancelled /\ exitCode # -1) => (result = "terminated" /\ exitCode = 130)

\* C13 amended: the interrupt is seen by the next call to the node.  A step of
\* run() that calls the node with the context cancelled, or whose broadcast is
\* interrupted in flight, ends the run with user termination, and the process
\* then exits with status 130; user termination is reported only after an
\* interrupt.  An interrupt after the last call of the run changes nothing.
C13_InterruptSeenByNextCall ==
    [][/\ (cancelled' /\ pc # "done" /\ pc' # pc /\ pc \notin {"validate", "sleep"}
             /\ NodeURLUsable(cfg)) =>
             (pc' = "done" /\ result' = "terminated")
       /\ result' = "terminated" => cancelled'
       /\ (result' = "terminated" /\ exitCode' # -1) => exitCode' = 130
       /\ (pc = "done" /\ cancelled' /\ ~cancelled) =>
             (result' = result /\ exitCode' = exitCode)]_vars

\* C13 witness: the interrupt fired in the lease phase of a real run, after
\* the transfer was found; the process exited with status 130
C13_Witness ==
    /\ cancelled
    /\ result = "terminated"
    /\ exitCode = 130
    /\ ~cfg.dryRun
    /\ calls["balanceLessor"] = 1
    /\ "transfer" \in mined

\* a parameter of the command line is missing or malformed
BadParams(c) ==
    c.invalid \in InvalidParams(c.transferOnly) \/ c.irreducibleBalance < 0

\* C14: with a missing or malformed parameter the run ends with the invalid
\* parameters result, the process exits with status 2, and not a single call
\* to the node is made.
C14_InvalidParamsNoCalls ==
    (BadParams(cfg) /\ pc # "validate") =>
        /\ pc = "done"
        /\ result = "invalid"
        /\ \A c \in CallNames : calls[c] = 0
        /\ exitCode \in {-1, 2}

\* C15: a process that exited did so with one of the statuses 0, 2, 130, 70
\* and never with 1; what run() returns is nil or one of its three sentinel
\* errors, and main maps nil to 0, errInvalidParameters to 2,
\* errUserTermination to 130 and errFailure to 70.  (A run that panics
\* returns nothing; the runtime ends the process with status 2.)
C15_ExitStatusMapping ==
    /\ (exitCode = -1) \/ (exitCode \in {0, 2, 130, 70})
    /\ exitCode # 1
    /\ exitCode # -1 => pc = "done"
    /\ pc = "done" => result \in {"ok", "invalid", "terminated", "failure", "panic"}
    /\ (exitCode # -1 /\ result # "panic") =>
          /\ (exitCode = 0) = (result = "ok")
          /\ (exitCode = 2) = (result = "invalid")
          /\ (exitCode = 130) = (result = "terminated")
          /\ (exitCode = 70) = (result = "failure")

\* C15 witness: a run whose broadcast of the transfer failed exited with
\* status 70
C15_Witness ==
    /\ exitCode = 70
    /\ result = "failure"
    /\ calls["broadcastTransfer"] = 1
    /\ "transfer" \notin pending \cup mined

\* C16: a lookup of track() ends the polling with success only when it found
\* the transaction (which the node had put in a block), with an error only
\* when the context is cancelled, and never with operation failure; after a
\* lookup that did not find the transaction the run sleeps and then looks up
\* again, however many lookups were made before.
C16_TrackLoop ==
    [][/\ (pc = "track" /\ pc' # "track") =>
             /\ lastLookup' \in {"found", "notfound", "canceled", "error"}
             /\ (pc' = "balance" \/ result' = "ok") =
                   (lastLookup' = "found" /\ phase \in mined)
             /\ (result' = "terminated") = (lastLookup' = "canceled")
             /\ lastLookup' = "canceled" => cancelled'
             /\ result' # "failure"
             /\ (pc' = "sleep") = (lastLookup' = "notfound")
             /\ lastLookup' = "notfound" => (result' = "none" /\ phase \notin mined)
       /\ pc = "track" => ENABLED Track(phase)
       /\ pc = "sleep" =>
             /\ ENABLED Sleep
             /\ pc' \in {"sleep", "track"}
             /\ calls' = calls
             /\ result' = "none"]_vars

\* C16 witness: the transaction was not found MaxPolls times and the run is
\* about to look it up once more
C16_Witness ==
    /\ polls = MaxPolls
    /\ lastLookup = "notfound"
    /\ pc = "track"
    /\ phase = "lease"
    /\ ~cancelled

\* C17: after a lookup of track() that failed with an error other than the
\* cancellation, track() has returned the error and the run has ended with
\* operation failure.
C17_TransportErrorFails ==
    lastLookup = "error" => (pc = "done" /\ result = "failure")

\* every transaction the run submitted is eventually put in a block, so that
\* the lookup of track() can find it
EverySubmittedFound == \A k \in Kinds : [](k \in pending => <>(k \in mined))

\* C18: when the process is scheduled fairly, every call returns, and each
\* submitted transaction is eventually found or the context is eventually
\* cancelled, the run ends and the process exits.  While the transaction of
\* the current phase is not found, the context is not cancelled and the
\* lookups are answered, the run stays in the polling of track().
C18_Termination ==
    /\ (EverySubmittedFound \/ <>cancelled) => <>(exitCode # -1)
    /\ [][(pc \in {"track", "sleep"} /\ ~cancelled' /\ phase \notin mined'
            /\ lastLookup' # "error") => pc' \in {"track", "sleep"}]_vars

\* C18 witness: the lease was found after a lookup that did not find it, and
\* the process exited with success
C18_Witness ==
    /\ exitCode = 0
    /\ ~cfg.dryRun
    /\ "lease" \in mined
    /\ calls["infoLease"] >= 2

\* C19: in a test run, a balance that passed the pre-check is the reserved
\* balance clamped to one WAVES (unchanged at or below it); when the cap
\* applies the amount is the cap minus the fee; and every transaction built
\* has amount + fee <= 100_000_000.
C19_TestRunCap ==
    cfg.testRun =>
        \A k \in Kinds :
            /\ (phase = k /\ BalanceRead(k) /\ ~NotEnoughBalance(observed[k].adjusted)) =>
                  balance = MathAdjusted(k)
            /\ (phase = k /\ ExtraFeeRead(k) /\ CapApplies(k)) =>
                  amount = waves - MathFee(k)
            /\ Built(k) => txs[k].amount + txs[k].fee <= waves

\* C20: the balance the cap step produced is left unchanged by the cap step,
\* cap(cap(b)) = cap(b), for the balance of the run and for every balance an
\* account holds; a balance at or below the cap is left unchanged.
C20_CapIdempotent ==
    /\ \A k \in Kinds :
          (phase = k /\ BalanceRead(k) /\ ~NotEnoughBalance(observed[k].adjusted)) =>
              /\ balance = CapTestRun(observed[k].adjusted, cfg.testRun)
              /\ CapTestRun(balance, cfg.testRun) = balance
    /\ \A a \in Addrs, t \in BOOLEAN :
          LET b == chainBal[a]
          IN  /\ CapTestRun(CapTestRun(b, t), t) = CapTestRun(b, t)
              /\ b <= waves => CapTestRun(b, t) = b

\* C20 witness: a test run clamped the generator's balance to the cap
C20_Witness ==
    /\ cfg.testRun
    /\ phase = "transfer"
    /\ observed["transfer"].adjusted > waves
    /\ balance = waves

Feature15Activated ==
    \E i \in DOMAIN chain.features :
        /\ chain.features[i].id = 15
        /\ chain.features[i].blockchainStatus = "ACTIVATED"
        /\ chain.features[i].nodeStatus \in {"IMPLEMENTED", "VOTED"}

\* C22: the version of the transactions is 3 if feature 15 is activated and 2
\* otherwise; it is decided once, by the activation step, before a
\* transaction is built, and never changes; every transaction built carries
\* it, so the transfer and the lease of a run have the same version.
C22_SingleVersion ==
    [][/\ txVer' # 0 => txVer' = IF Feature15Activated THEN 3 ELSE 2
       /\ txVer' # txVer =>
             /\ pc = "activation"
             /\ txVer = 0
             /\ \A k \in Kinds : ~Built(k) /\ ~Built(k)'
       /\ \A k \in Kinds : Built(k)' => txs'[k].version = txVer' /\ txVer' # 0
       /\ (Built("transfer")' /\ Built("lease")') =>
             txs'["transfer"].version = txs'["lease"].version]_vars

\* C22 witness: both transactions were built with version 3, the node having
\* reported feature 15 second in its list
C22_Witness ==
    /\ Built("transfer")
    /\ Built("lease")
    /\ lease.version = 3
    /\ Len(chain.features) = 2
    /\ chain.features[1].id # 15

\* the address that sends the transaction of phase k, as the specification
\* states it
SpecSender(k) ==
    IF k = "transfer" THEN "generator"
    ELSE IF cfg.lessorPK THEN "override" ELSE "lessor"

\* C23: the extra fee of each phase is the one the node reports for the
\* sender of that phase, and the fee of the transaction is the standard fee
\* plus it; the balance of the lease phase is the one the node reports for
\* the lessor when the phase starts (after the transfer arrived, in a real
\* run), and the lease amount is that balance, adjusted, minus the lease fee.
C23_FeesPerPhase ==
    \A k \in Kinds :
        /\ ExtraFeeRead(k) =>
              /\ observed[k].extraOf = SpecSender(k)
              /\ observed[k].extra = extraFee[SpecSender(k)]
        /\ BalanceRead(k) => observed[k].balanceOf = SpecSender(k)
        /\ Built(k) =>
              /\ txs[k].sender = SpecSender(k)
              /\ txs[k].fee = standardFee + extraFee[SpecSender(k)]
              /\ txs[k].amount =
                    SubUint64(CapTestRun(observed[k].adjusted, cfg.testRun), txs[k].fee)
        /\ (k = "lease" /\ BalanceRead(k)) =>
              observed[k].raw = chainBal0[SpecSender(k)] +
                                  (IF cfg.dryRun THEN 0 ELSE transfer.amount)

\* C23 witness: a real run built the lease for a lessor whose extra fee
\* differs from the generator's
C23_Witness ==
    /\ ~cfg.dryRun
    /\ Built("lease")
    /\ lease.signed
    /\ extraFee[lease.sender] # extraFee["generator"]
    /\ lease.fee # transfer.fee
    /\ lease.amount # transfer.amount

\* C24: with the context already cancelled, the next step of run() that calls
\* the node gets the cancellation and ends the run with user termination:
\* the phase does not advance, nothing is built or printed, and the node
\* receives no transaction; from the cancellation on, only the transactions
\* the node already had can reach the blockchain.
C24_NoAdvanceAfterCancel ==
    [][cancelled =>
          /\ (pc \notin {"done", "sleep"} /\ pc' # pc /\ NodeURLUsable(cfg)) =>
                /\ pc' = "done"
                /\ result' = "terminated"
                /\ phase' = phase
                /\ txs' = txs
                /\ rendered' = rendered
                /\ pending' = pending
          /\ pending' \subseteq pending
          /\ pending' \cup mined' = pending \cup mined
          /\ result' \notin {"ok", "none"} \/ result' = result]_vars

\* C24 witness: the context was cancelled before the broadcast of the lease;
\* the broadcast was attempted and the node never got the lease
C24_Witness ==
    /\ cancelled
    /\ result = "terminated"
    /\ calls["broadcastLease"] = 1
    /\ "transfer" \in mined
    /\ "lease" \notin pending \cup mined

BareAddresses == {"recipient", "leasing"}

\* C26: an account made from a bare address appears in a run only as the
\* recipient of a transaction: it never sends, its balance and extra fee are
\* never asked for, and no transaction is signed with a key of it; a signed
\* transfer is signed with the generating secret key and a signed lease with
\* the lessor secret key.
C26_RecipientsNeverSign ==
    \A k \in Kinds :
        /\ observed[k].balanceOf \notin BareAddresses
        /\ observed[k].extraOf \notin BareAddresses
        /\ Built(k) =>
              /\ txs[k].sender \notin BareAddresses
              /\ txs[k].senderPK # "none"
              /\ txs[k].signed =>
                    txs[k].signedWith =
                        IF k = "transfer" THEN "generatorSK" ELSE "lessorSK"
              /\ ~txs[k].signed => txs[k].signedWith = "none"

\* C26 witness: a real run got its lease to an overriding leasing address
\* into the blockchain
C26_Witness ==
    /\ ~cfg.dryRun
    /\ cfg.leasingAddress
    /\ "lease" \in mined
    /\ lease.recipient \in BareAddresses
    /\ lease.signedWith = "lessorSK"
    /\ transfer.signedWith = "generatorSK"

\* the identity of the lessor as the specification states it: the public key
\* and address of the override if there is one, those of the lessor secret
\* key otherwise
SpecLessorPK == IF cfg.lessorPK THEN "overridePK" ELSE "lessorPK"

SpecLessorAddr == IF cfg.lessorPK THEN "override" ELSE "lessor"

\* C27: the transfer of the default mode goes to the lessor identity, the
\* balance and the extra fee of the lease phase are asked for it, and the
\* lease carries its public key as sender; the lease is signed with the
\* lessor secret key, override or not.
C27_LessorOverride ==
    /\ (~cfg.transferOnly /\ Built("transfer")) => transfer.recipient = SpecLessorAddr
    /\ BalanceRead("lease") =>
          /\ observed["lease"].balanceOf = SpecLessorAddr
          /\ observed["lease"].raw =
                chainBal0[SpecLessorAddr] + (IF cfg.dryRun THEN 0 ELSE transfer.amount)
    /\ ExtraFeeRead("lease") =>
          /\ observed["lease"].extraOf = SpecLessorAddr
          /\ observed["lease"].extra = extraFee[SpecLessorAddr]
    /\ Built("lease") =>
          /\ lease.senderPK = SpecLessorPK
          /\ lease.sender = SpecLessorAddr
          /\ lease.signed => lease.signedWith = "lessorSK"

\* C27 witness: with the override, a real run moved the funds to the address
\* of the override key and signed a lease of them with the lessor secret key
C27_Witness ==
    /\ cfg.lessorPK
    /\ ~cfg.dryRun
    /\ "transfer" \in mined
    /\ Built("lease")
    /\ transfer.recipient = "override"
    /\ observed["lease"].raw = 700000 + transfer.amount
    /\ lease.signed
    /\ lease.senderPK = "overridePK"
    /\ lease.signedWith = "lessorSK"

\* the calls run() makes after the chain facts are known
LaterCalls == CallNames \ {"height", "lastBlock", "activation"}

\* C28: the scheme and the activation status are asked for at most once each,
\* the scheme after the connection check and the activation status after the
\* scheme; every balance or extra-fee query, signature, broadcast and lookup
\* comes after both, and so does success; the scheme is assigned once, to
\* what the node reports, and every signed transaction is signed for it.
C28_ChainFactsOnceAndFirst ==
    [][/\ calls'["lastBlock"] <= 1
       /\ calls'["activation"] <= 1
       /\ calls'["lastBlock"] = 1 => calls'["height"] = 1
       /\ calls'["activation"] = 1 => calls'["lastBlock"] = 1
       /\ (\E c \in LaterCalls : calls'[c] # calls[c]) =>
             /\ calls["lastBlock"] = 1
             /\ calls["activation"] = 1
             /\ scheme = chain.scheme
             /\ txVer # 0
       /\ result' = "ok" => (calls'["lastBlock"] = 1 /\ calls'["activation"] = 1)
       /\ scheme' # scheme =>
             (pc = "scheme" /\ scheme = "none" /\ scheme' = chain.scheme)
       /\ \A k \in Kinds :
             (Built(k)' /\ txs'[k].signed) =>
                 (txs'[k].scheme = scheme' /\ scheme' = chain.scheme)]_vars

\* C28 witness: on the test network, both transactions were signed after one
\* query of the scheme and one of the activation status
C28_Witness ==
    /\ chain.scheme = "T"
    /\ calls["lastBlock"] = 1
    /\ calls["activation"] = 1
    /\ Built("transfer")
    /\ Built("lease")
    /\ transfer.scheme = "T"
    /\ lease.scheme = "T"

\* C29: on the list of features the node answers, isProtobufActivated is true
\* exactly when some entry has id 15, blockchain status ACTIVATED and node
\* status IMPLEMENTED or VOTED; it is false on the empty list; and the
\* activation step decides the version by it.
C29_ActivationPredicate ==
    /\ IsProtobufActivated(chain.features) = Feature15Activated
    /\ chain.features = <<>> => ~IsProtobufActivated(chain.features)
    /\ (\A i \in DOMAIN chain.features : chain.features[i].id # 15) =>
          ~IsProtobufActivated(chain.features)
    /\ calls["activation"] = 1 /\ txVer # 0 =>
          (txVer = 3) = Feature15Activated

\* C29 witness: the node listed feature 15 as activated but not implemented
\* and then as activated and voted; the run took version 3
C29_Witness ==
    /\ Len(chain.features) = 2
    /\ chain.features[1] = [id |-> 15, blockchainStatus |-> "ACTIVATED",
                             nodeStatus |-> "NOT_IMPLEMENTED"]
    /\ chain.features[2] = [id |-> 15, blockchainStatus |-> "ACTIVATED",
                             nodeStatus |-> "VOTED"]
    /\ txVer = 3

\* C30: in the transfer only mode the transfer goes to the configured
\* recipient address; the lessor secret key (like the other flags of the
\* lessor) is not read, so that a run without it is not rejected, and nothing
\* is signed with it.  In the default mode the transfer goes to the address of
\* the lessor, whether a recipient address is given, or even malformed, or not.
C30_TransferRecipient ==
    /\ Built("transfer") =>
          transfer.recipient = IF cfg.transferOnly THEN "recipient" ELSE SpecLessorAddr
    /\ cfg.transferOnly =>
          /\ ~Built("lease")
          /\ \A c \in LeasePhaseCalls : calls[c] = 0
          /\ (Built("transfer") /\ transfer.signed) => transfer.signedWith # "lessorSK"
    /\ (pc # "validate" /\ ~BadParams(cfg)) => result \notin {"invalid"}
    /\ (pc = "done" /\ calls["height"] = 0) => BadParams(cfg)

\* C30 witness: a transfer only run without a lessor secret key got its
\* transfer to the configured recipient
C30_Witness ==
    /\ cfg.transferOnly
    /\ ~cfg.lessorSK
    /\ ~cfg.dryRun
    /\ result = "ok"
    /\ "transfer" \in mined
    /\ transfer.recipient = "recipient"
    /\ chainBal["recipient"] = transfer.amount

\* the lease amount as the specification computes it: the policy-adjusted
\* balance of the lessor minus the fee of the lease
MathLeaseAmount == MathAdjusted("lease") - MathFee("lease")

\* the run ended successfully in the lease phase without any lease
LeaseSkipped ==
    /\ pc = "done"
    /\ result = "ok"
    /\ phase = "lease"
    /\ NoLeaseAtAll

\* C31: the balance checks of the lease phase come before the threshold skip:
\* a lessor balance after the reservation of at most the standard fee, or a
\* lease amount that is not positive, ends the run with operation failure
\* whatever the leasing threshold is; the run ends successfully without a
\* lease only when the lease amount is positive and below the threshold.
C31_BalanceChecksBeforeThreshold ==
    /\ (BalanceRead("lease") /\ MathReserved("lease") <= standardFee) =>
          (result = "failure" /\ NoLeaseAtAll)
    /\ (ExtraFeeRead("lease") /\ MathLeaseAmount <= 0) =>
          (result = "failure" /\ NoLeaseAtAll)
    /\ LeaseSkipped =>
          /\ ExtraFeeRead("lease")
          /\ cfg.leasingThreshold > 0
          /\ MathLeaseAmount > 0
          /\ MathLeaseAmount < cfg.leasingThreshold

\* the balance the node holds for the lessor of the run
LessorOnChain == chainBal[LessorAccount(cfg).addr]

\* C32: in a dry run that is not transfer-only the lease phase follows the
\* printed transfer, queries the lessor's balance and extra fee and applies
\* the policy checks to the balance the node holds for the lessor, without
\* the amount of the printed transfer; so the dry run ends with operation
\* failure, with no extra-fee query and no lease, whenever that balance minus
\* the irreducible balance is at most the standard fee, whatever the amount
\* of the transfer is.
C32_DryRunLeasePhase ==
    (cfg.dryRun /\ ~cfg.transferOnly) =>
        /\ "transfer" \in rendered =>
              /\ phase = "lease"
              /\ (pc = "done" /\ result = "ok") => calls["extraFeeLessor"] = 1
        /\ BalanceRead("lease") =>
              /\ "transfer" \in rendered
              /\ calls["balanceLessor"] = 1
              /\ observed["lease"].balanceOf = LessorAccount(cfg).addr
              /\ observed["lease"].raw = LessorOnChain
              /\ LessorOnChain = chainBal0[LessorAccount(cfg).addr]
              /\ observed["lease"].adjusted = MathReserved("lease")
              /\ LessorOnChain - cfg.irreducibleBalance <= standardFee =>
                    /\ pc = "done"
                    /\ result = "failure"
                    /\ calls["extraFeeLessor"] = 0
                    /\ NoLeaseAtAll
              /\ LessorOnChain - cfg.irreducibleBalance > standardFee =>
                    /\ balance = MathAdjusted("lease")
                    /\ pc = "fee" \/ calls["extraFeeLessor"] = 1
        /\ ExtraFeeRead("lease") =>
              /\ observed["lease"].extraOf = LessorAccount(cfg).addr
              /\ fee = MathFee("lease")
              /\ MathLeaseAmount = 0 => (result = "failure" /\ NoLeaseAtAll)
              /\ (MathLeaseAmount > 0 /\ cfg.leasingThreshold > 0
                    /\ MathLeaseAmount < cfg.leasingThreshold) => LeaseSkipped
              /\ (MathLeaseAmount > 0
                    /\ ~(cfg.leasingThreshold > 0
                            /\ MathLeaseAmount < cfg.leasingThreshold)) =>
                    /\ Built("lease")
                    /\ lease.amount = MathLeaseAmount
                    /\ calls["broadcastLease"] = 0
                    /\ lease.signed =>
                          ("lease" \in rendered \/ result = "failure")

\* C32 witness: a dry run printed a transfer whose amount would have lifted
\* the lessor above the standard fee, and failed on the lessor's balance as
\* the node holds it
C32_Witness ==
    /\ cfg.dryRun
    /\ ~cfg.transferOnly
    /\ "transfer" \in rendered
    /\ transfer.amount > standardFee
    /\ BalanceRead("lease")
    /\ LessorOnChain - cfg.irreducibleBalance <= standardFee
    /\ LessorOnChain + transfer.amount - cfg.irreducibleBalance > standardFee
    /\ pc = "done"
    /\ result = "failure"
    /\ calls["extraFeeLessor"] = 0

====
